---------------------------- MODULE Spec2Model ----------------------------
(***************************************************************************)
(* Model of the toy synthesizer of src/src/main.rs: the ADSR envelope,     *)
(* the voice table owned by the audio callback, the key-event ring buffer  *)
(* and the keyboard polling loop of main.                                  *)
(*                                                                         *)
(* f32 values are modelled as exact rationals <<n, d>> in lowest terms     *)
(* with d > 0.  Times are integers in milliseconds, rates in Hz.           *)
(***************************************************************************)
EXTENDS Integers, Sequences, FiniteSets, TLC

(* ------------------------------ bounds -------------------------------- *)
\* longest stage time, in ms, of the envelopes tried in EnvSpec
MaxStageMs == 3
\* process() calls allowed in a row without a trigger() or release()
MaxCalls == 10
\* polling ticks of main's loop
MaxTicks == 3
\* frames of one output buffer
MaxFrames == 2
\* events fed to the channel in VoiceSpec
MaxFed == 3
\* capacity of the event ring buffer: HeapRb::new(1024), scaled down so that
\* a full buffer is within reach of MaxTicks ticks
Capacity == 3

VARIABLES
    \* main: the polling loop
    main_pc,        \* "poll", "press", "release", "done", "panicked"
    keys,           \* let keys = device_state.get_keys()
    previous_keys,  \* let mut previous_keys
    idx,            \* position of the running for loop in its Vec
    ticks,          \* loop iterations started so far
    tick_ev,        \* observer: the events pushed so far in this iteration
    down,           \* observer: keys whose last pushed event is a press
    \* the ring buffer shared by producer and consumer
    channel,        \* queued events [key, pressed, seq], oldest first
    \* create_audio_stream: the callback closure and what it captures
    cb_pc,          \* "wait", "drain", "render", "reap"
    sample_rate,    \* config.sample_rate()
    notes,          \* HashMap<Keycode, (Note, f32, Envelope)>
    frames,         \* frames of the buffer being filled
    frame,          \* frames of it filled so far
    mix,            \* terms of the mix written to the last frame
    \* observers of the run (they decide nothing)
    pushed,         \* try_push calls that succeeded
    popped,         \* try_pop calls that returned an event
    last_ev,        \* the event dispatched last in this invocation
    reaps,          \* notes.retain calls of this invocation
    \* the same callback with the retain moved behind the frame loop
    notes_alt,      \* its voice table
    mix_alt,        \* terms of the mix it wrote to the last frame
    \* one envelope driven directly (EnvSpec)
    env,            \* the envelope
    ret,            \* what the last process() call returned
    obs             \* how the envelope got here

vars == <<main_pc, keys, previous_keys, idx, ticks, tick_ev, down, channel,
          cb_pc, sample_rate, notes, frames, frame, mix, pushed, popped,
          last_ev, reaps, notes_alt, mix_alt, env, ret, obs>>

mainVars == <<main_pc, keys, previous_keys, idx, ticks, tick_ev, down>>

cbVars == <<cb_pc, notes, frames, frame, mix, last_ev, reaps, notes_alt,
            mix_alt>>

envVars == <<env, ret, obs>>

(* ----------------------------- rationals ------------------------------ *)
RECURSIVE GCD(_, _)
GCD(a, b) == IF b = 0 THEN a ELSE GCD(b, a % b)

Abs(n) == IF n < 0 THEN 0 - n ELSE n

\* n / d in lowest terms, d > 0
Rat(n, d) == LET g == GCD(Abs(n), d) IN <<n \div g, d \div g>>

Zero == Rat(0, 1)

One == Rat(1, 1)

RatMul(a, b) == Rat(a[1] * b[1], a[2] * b[2])

RatSub(a, b) == Rat(a[1] * b[2] - b[1] * a[2], a[2] * b[2])

RatLeq(a, b) == a[1] * b[2] <= b[1] * a[2]

(* ------------------------------ Envelope ------------------------------ *)
EnvelopePhase == {"Idle", "Attack", "Decay", "Sustain", "Release"}

\* Envelope::new
NewEnvelope(attack, decay, sustain, rel, rate) ==
    [attack_time |-> attack, decay_time |-> decay,
     sustain_level |-> sustain, release_time |-> rel,
     current_level |-> Zero, phase |-> "Idle",
     sample_rate |-> rate, samples_processed |-> 0]

\* Envelope::trigger
trigger(e) == [e EXCEPT !.phase = "Attack", !.samples_processed = 0]

\* Envelope::release
release(e) == [e EXCEPT !.phase = "Release", !.samples_processed = 0]

\* (time * sample_rate) as usize, time in ms
StageSamples(time, rate) == (time * rate) \div 1000

attack_samples(e) == StageSamples(e.attack_time, e.sample_rate)

decay_samples(e) == StageSamples(e.decay_time, e.sample_rate)

release_samples(e) == StageSamples(e.release_time, e.sample_rate)

\* the broken variant: the ramp overshoots by one sample
AttackDoneLate(n, total) == n > total

\* the comparison that ends the attack ramp
AttackDone(n, total) == n >= total

\* the broken variant: the release ramp ends one sample early
ReleaseDoneEarly(n, total) == n + 1 >= total

\* the comparison that ends the release ramp
ReleaseDone(n, total) == n >= total

\* the Attack arm of Envelope::process
ProcessAttack(e) ==
    LET n == attack_samples(e)
        sp == e.samples_processed IN
    IF n = 0
    THEN [e EXCEPT !.current_level = One, !.phase = "Decay",
                   !.samples_processed = 1]
    ELSE [e EXCEPT !.current_level = Rat(sp, n),
                   !.phase = IF AttackDone(sp, n) THEN "Decay" ELSE "Attack",
                   !.samples_processed = IF AttackDone(sp, n) THEN 1 ELSE sp + 1]

\* the broken variant: the decay ramp climbs from 1.0
DecayLevelUp(sustain_level, sp, n) ==
    RatSub(One, RatMul(RatSub(sustain_level, One), Rat(sp, n)))

\* 1.0 - (1.0 - sustain_level) * (samples_processed / decay_samples)
DecayLevel(sustain_level, sp, n) ==
    RatSub(One, RatMul(RatSub(One, sustain_level), Rat(sp, n)))

\* the broken variant: a zero-sample decay enters Sustain at the old level
ProcessDecayKeepsLevel(e) ==
    LET n == decay_samples(e)
        sp == e.samples_processed IN
    IF n = 0
    THEN [e EXCEPT !.phase = "Sustain", !.samples_processed = sp + 1]
    ELSE [e EXCEPT !.current_level = DecayLevel(e.sustain_level, sp, n),
                   !.phase = IF sp >= n THEN "Sustain" ELSE "Decay",
                   !.samples_processed = sp + 1]

\* the Decay arm of Envelope::process
ProcessDecay(e) ==
    LET n == decay_samples(e)
        sp == e.samples_processed IN
    IF n = 0
    THEN [e EXCEPT !.current_level = e.sustain_level, !.phase = "Sustain",
                   !.samples_processed = sp + 1]
    ELSE [e EXCEPT !.current_level = DecayLevel(e.sustain_level, sp, n),
                   !.phase = IF sp >= n THEN "Sustain" ELSE "Decay",
                   !.samples_processed = sp + 1]

\* sustain_level * (1.0 - samples_processed / release_samples)
ReleaseLevel(sustain_level, sp, n) ==
    RatMul(sustain_level, RatSub(One, Rat(sp, n)))

\* the Release arm of Envelope::process
ProcessRelease(e) ==
    LET n == release_samples(e)
        sp == e.samples_processed IN
    IF n = 0
    THEN [e EXCEPT !.current_level = Zero, !.phase = "Idle",
                   !.samples_processed = sp + 1]
    ELSE [e EXCEPT !.current_level =
                       IF ReleaseDone(sp, n) THEN Zero
                       ELSE ReleaseLevel(e.sustain_level, sp, n),
                   !.phase = IF ReleaseDone(sp, n) THEN "Idle" ELSE "Release",
                   !.samples_processed = sp + 1]

\* the broken variant: a held level runs into the release ramp by itself
processSustainEnds(e) ==
    CASE e.phase = "Idle" -> e
      [] e.phase = "Attack" -> ProcessAttack(e)
      [] e.phase = "Decay" -> ProcessDecay(e)
      [] e.phase = "Sustain" -> [e EXCEPT !.phase = "Release"]
      [] e.phase = "Release" -> ProcessRelease(e)

\* Envelope::process: the envelope after the call
process(e) ==
    CASE e.phase = "Idle" -> e
      [] e.phase = "Attack" -> ProcessAttack(e)
      [] e.phase = "Decay" -> ProcessDecay(e)
      [] e.phase = "Sustain" -> e
      [] e.phase = "Release" -> ProcessRelease(e)

\* the broken variant: an Idle envelope returns full level
processValueIdleSounds(e) ==
    CASE e.phase = "Idle" -> One
      [] e.phase = "Sustain" -> e.sustain_level
      [] OTHER -> process(e).current_level

\* Envelope::process: the value the call returns
processValue(e) ==
    CASE e.phase = "Idle" -> Zero
      [] e.phase = "Sustain" -> e.sustain_level
      [] OTHER -> process(e).current_level

(* ---------------- the voice table and the audio callback -------------- *)
\* create_key_frequency_map.  Z and X stand for the thirteen mapped keys; Q
\* and Escape have no entry.  Frequencies are scaled with the sample rate,
\* keeping frequency < sample_rate as at audio rates.
MappedKeys == {"Z", "X"}

KeyFrequency == [k \in MappedKeys |-> IF k = "Z" THEN 4 ELSE 6]

Keycode == MappedKeys \cup {"Q", "Escape"}

\* config.sample_rate(), scaled like the frequencies
SampleRates == {12}

\* Envelope::new(0.01, 0.1, 0.7, 0.2, sample_rate), times in ms
AttackTimeMs == 10

DecayTimeMs == 100

SustainLevel == Rat(7, 10)

ReleaseTimeMs == 200

\* env_value * 0.2
Gain == Rat(1, 5)

RatAdd(a, b) == Rat(a[1] * b[2] + b[1] * a[2], a[2] * b[2])

\* Note::new
NewNote(frequency) ==
    [frequency |-> frequency, is_playing |-> FALSE, amplitude |-> Zero]

\* the broken variant: the accumulator is never wrapped
AdvancePhaseNoWrap(phase, frequency, rate) ==
    RatAdd(phase, Rat(frequency, rate))

\* *phase += frequency / sample_rate; if *phase >= 1.0 { *phase -= 1.0 }
AdvancePhase(phase, frequency, rate) ==
    LET p == RatAdd(phase, Rat(frequency, rate)) IN
    IF RatLeq(One, p) THEN RatSub(p, One) ELSE p

\* Note::generate_sample on the clone carrying the amplitude: the phase after
\* the call and the term sin(2 pi at) * amp it returns
GenerateSample(note, phase, rate) ==
    IF ~note.is_playing
    THEN [phase |-> phase, at |-> phase, amp |-> Zero]
    ELSE LET p == AdvancePhase(phase, note.frequency, rate) IN
         [phase |-> p, at |-> p, amp |-> note.amplitude]

\* the voice inserted on the press of a key without one
NewVoice(frequency, rate) ==
    [note |-> [NewNote(frequency) EXCEPT !.is_playing = TRUE],
     phase |-> Zero,
     env |-> NewEnvelope(AttackTimeMs, DecayTimeMs, SustainLevel,
                         ReleaseTimeMs, rate)]

\* the broken variant: every press inserts a fresh voice
InsertAlways(table, key, rate) ==
    [k \in DOMAIN table \cup {key} |->
        IF k = key THEN NewVoice(KeyFrequency[key], rate) ELSE table[k]]

\* if !notes.contains_key(&key) { notes.insert(key, ...) }
InsertIfAbsent(table, key, rate) ==
    IF key \in DOMAIN table THEN table
    ELSE [k \in DOMAIN table \cup {key} |->
             IF k = key THEN NewVoice(KeyFrequency[key], rate) ELSE table[k]]

\* the broken variant: a release for a key without a voice creates one
DispatchReleaseCreates(table, key, pressed, rate) ==
    IF key \notin DOMAIN KeyFrequency THEN table
    ELSE LET t == InsertIfAbsent(table, key, rate) IN
         IF pressed
         THEN [t EXCEPT ![key].note.is_playing = TRUE,
                        ![key].env = trigger(t[key].env)]
         ELSE [t EXCEPT ![key].env = release(t[key].env)]

\* the body of the while-let loop: one popped event applied to the table
Dispatch(table, key, pressed, rate) ==
    IF key \notin DOMAIN KeyFrequency THEN table
    ELSE IF pressed
    THEN LET t == InsertIfAbsent(table, key, rate) IN
         [t EXCEPT ![key].note.is_playing = TRUE,
                   ![key].env = trigger(t[key].env)]
    ELSE IF key \in DOMAIN table
         THEN [table EXCEPT ![key].env = release(table[key].env)]
         ELSE table

\* one voice of the inner for loop of a frame
RenderVoice(v, rate) ==
    LET env_value == processValue(v.env)
        note_clone == [v.note EXCEPT !.amplitude = RatMul(env_value, Gain)]
        g == GenerateSample(note_clone, v.phase, rate) IN
    [voice |-> [v EXCEPT !.env = process(v.env), !.phase = g.phase],
     term |-> [at |-> g.at, amp |-> g.amp]]

\* the broken variant: voices still releasing are dropped too
RetainedNoRelease(v) == v.env.phase \notin {"Idle", "Release"}

\* the broken variant: nothing is ever dropped
RetainedAlways(v) == v.env.phase \in EnvelopePhase

\* the predicate of notes.retain
Retained(v) == v.env.phase # "Idle"

\* notes.retain(...)
Retain(table) ==
    [k \in {x \in DOMAIN table : Retained(table[x])} |-> table[k]]

EmptyTable == [k \in {} |-> 0]

NoEvent == [key |-> "", pressed |-> FALSE, seq |-> 0, had_voice |-> FALSE]

\* the broken variant: only the first element is looked at
RangeFirst(s) == {s[i] : i \in 1..(IF Len(s) > 1 THEN 1 ELSE Len(s))}

\* the elements of a Vec, as Vec::contains sees them
Range(s) == {s[i] : i \in 1..Len(s)}

\* the running process: main has neither returned nor panicked, so the
\* stream it owns is alive
Running == main_pc \notin {"done", "panicked"}

\* the host starts the callback on a buffer of n frames
CallbackBegin ==
    /\ cb_pc = "wait"
    /\ Running
    /\ \E n \in 1..MaxFrames : frames' = n
    /\ frame' = 0
    /\ reaps' = 0
    /\ mix' = EmptyTable
    /\ mix_alt' = EmptyTable
    /\ cb_pc' = "drain"
    /\ UNCHANGED <<mainVars, channel, sample_rate, notes, notes_alt, pushed,
                   popped, last_ev, envVars>>

\* the broken variant: the newest event is taken
PopBack(q) == q[Len(q)]

\* consumer.try_pop() on a queue that holds an event: the event taken
PopFront(q) == Head(q)

\* the queue after consumer.try_pop()
AfterPop(q) == Tail(q)

\* one turn of the while-let loop that got Some((key, pressed))
DrainPop ==
    /\ cb_pc = "drain"
    /\ channel # <<>>
    /\ LET ev == PopFront(channel) IN
        /\ notes' = Dispatch(notes, ev.key, ev.pressed, sample_rate)
        /\ notes_alt' = Dispatch(notes_alt, ev.key, ev.pressed, sample_rate)
        /\ last_ev' = [key |-> ev.key, pressed |-> ev.pressed, seq |-> ev.seq,
                       had_voice |-> ev.key \in DOMAIN notes]
    /\ channel' = AfterPop(channel)
    /\ popped' = popped + 1
    /\ UNCHANGED <<mainVars, cb_pc, sample_rate, frames, frame, mix, mix_alt,
                   pushed, reaps, envVars>>

\* where the callback goes once try_pop has returned None
AfterDrain == "render"

\* try_pop returned None: the loop ends and the frame loop starts
DrainEmpty ==
    /\ cb_pc = "drain"
    /\ channel = <<>>
    /\ cb_pc' = AfterDrain
    /\ last_ev' = NoEvent
    /\ UNCHANGED <<mainVars, channel, sample_rate, notes, frames, frame, mix,
                   pushed, popped, reaps, notes_alt, mix_alt, envVars>>

\* one frame: every voice processed and mixed, the mix written to the frame
RenderFrame ==
    /\ cb_pc = "render"
    /\ notes' = [k \in DOMAIN notes |-> RenderVoice(notes[k], sample_rate).voice]
    /\ mix' = [k \in DOMAIN notes |-> RenderVoice(notes[k], sample_rate).term]
    /\ notes_alt' = [k \in DOMAIN notes_alt |->
                        RenderVoice(notes_alt[k], sample_rate).voice]
    /\ mix_alt' = [k \in DOMAIN notes_alt |->
                      RenderVoice(notes_alt[k], sample_rate).term]
    /\ cb_pc' = "reap"
    /\ UNCHANGED <<mainVars, channel, sample_rate, frames, frame, pushed,
                   popped, last_ev, reaps, envVars>>

\* the broken variant: the queue is drained again before every frame
AfterFrameDrain(n, total) == IF n >= total THEN "wait" ELSE "drain"

\* where the callback goes after the retain that ends frame number n of a
\* buffer of total frames
AfterFrame(n, total) == IF n >= total THEN "wait" ELSE "render"

\* the retain moved behind the frame loop: it runs once frame number n,
\* the last of the buffer, is rendered
RetainAfterLoop(table, n, total) ==
    IF n >= total THEN Retain(table) ELSE table

\* notes.retain at the end of the frame's loop body
ReapFrame ==
    /\ cb_pc = "reap"
    /\ notes' = Retain(notes)
    /\ notes_alt' = RetainAfterLoop(notes_alt, frame + 1, frames)
    /\ reaps' = reaps + 1
    /\ frame' = frame + 1
    /\ cb_pc' = AfterFrame(frame + 1, frames)
    /\ UNCHANGED <<mainVars, channel, sample_rate, frames, mix, mix_alt,
                   pushed, popped, last_ev, envVars>>

(* ------------------------- main: the polling loop --------------------- *)
\* the order in which get_keys() lists held keys: it scans the keymap of the
\* device by key code
ScanOrder == <<"Escape", "Q", "Z", "X">>

Listed(held, order) == SelectSeq(order, LAMBDA k : k \in held)

\* the keys the player touches
Keyboard == MappedKeys \cup {"Escape"}

\* what device_state.get_keys() can return: the held keys in scan order
Snapshots == {Listed(held, ScanOrder) : held \in SUBSET Keyboard}

\* let keys = device_state.get_keys()
Poll ==
    /\ main_pc = "poll"
    /\ ticks < MaxTicks
    /\ ticks' = ticks + 1
    /\ \E s \in Snapshots : keys' = s
    /\ main_pc' = "press"
    /\ idx' = 1
    /\ UNCHANGED <<previous_keys, tick_ev, down, channel, sample_rate, cbVars,
                   pushed, popped, envVars>>

\* producer.try_push(..) finds no free slot
Full(q) == Len(q) >= Capacity

\* producer.try_push((key, pressed)).unwrap()
PushUnwrap(key, pressed) ==
    IF Full(channel)
    THEN /\ main_pc' = "panicked"
         /\ UNCHANGED <<channel, pushed, idx, tick_ev, down>>
    ELSE /\ channel' = Append(channel, [key |-> key, pressed |-> pressed,
                                        seq |-> pushed + 1])
         /\ pushed' = pushed + 1
         /\ idx' = idx + 1
         /\ tick_ev' = Append(tick_ev, [key |-> key, pressed |-> pressed])
         /\ down' = IF pressed THEN down \cup {key} ELSE down \ {key}
         /\ UNCHANGED main_pc

\* for key in &keys { if !previous_keys.contains(key) { push press } }
PressLoop ==
    /\ main_pc = "press"
    /\ IF idx > Len(keys)
       THEN /\ main_pc' = "release"
            /\ idx' = 1
            /\ UNCHANGED <<channel, pushed, tick_ev, down>>
       ELSE IF keys[idx] \in Range(previous_keys)
       THEN /\ idx' = idx + 1
            /\ UNCHANGED <<main_pc, channel, pushed, tick_ev, down>>
       ELSE PushUnwrap(keys[idx], TRUE)
    /\ UNCHANGED <<keys, previous_keys, ticks, sample_rate, cbVars, popped,
                   envVars>>

\* for key in &previous_keys { if !keys.contains(key) { push release } },
\* then the exit test, previous_keys = keys and the sleep
ReleaseLoop ==
    /\ main_pc = "release"
    /\ IF idx > Len(previous_keys)
       THEN /\ IF "Escape" \in Range(keys)
               THEN /\ main_pc' = "done"
                    /\ UNCHANGED <<keys, previous_keys, tick_ev>>
               ELSE /\ main_pc' = "poll"
                    /\ previous_keys' = keys
                    /\ keys' = <<>>
                    /\ tick_ev' = <<>>
            /\ idx' = 1
            /\ UNCHANGED <<channel, pushed, down>>
       ELSE IF previous_keys[idx] \in Range(keys)
       THEN /\ idx' = idx + 1
            /\ UNCHANGED <<main_pc, keys, previous_keys, channel, pushed,
                           tick_ev, down>>
       ELSE /\ PushUnwrap(previous_keys[idx], FALSE)
            /\ UNCHANGED <<keys, previous_keys>>
    /\ UNCHANGED <<ticks, sample_rate, cbVars, popped, envVars>>

\* the envelope EnvSpec drives; at rest in Spec
RestEnvelope == NewEnvelope(0, 0, Zero, 0, 0)

\* obs: run is the call that last set the phase from outside ("new",
\* "trigger" from Idle, "retrigger" from any other phase, "release"), from the
\* phase it found, level0 the level it found, n the process() calls made
\* since, prev the level before the last of them
RestObs == [run |-> "new", from |-> "Idle", n |-> 0, level0 |-> Zero,
            prev |-> Zero]

Init ==
    /\ main_pc = "poll"
    /\ keys = <<>>
    /\ previous_keys = <<>>
    /\ idx = 1
    /\ ticks = 0
    /\ tick_ev = <<>>
    /\ down = {}
    /\ channel = <<>>
    /\ cb_pc = "wait"
    /\ sample_rate \in SampleRates
    /\ notes = EmptyTable
    /\ frames = 0
    /\ frame = 0
    /\ mix = EmptyTable
    /\ pushed = 0
    /\ popped = 0
    /\ last_ev = NoEvent
    /\ reaps = 0
    /\ notes_alt = EmptyTable
    /\ mix_alt = EmptyTable
    /\ env = RestEnvelope
    /\ ret = Zero
    /\ obs = RestObs

Next ==
    \/ Poll
    \/ PressLoop
    \/ ReleaseLoop
    \/ CallbackBegin
    \/ DrainPop
    \/ DrainEmpty
    \/ RenderFrame
    \/ ReapFrame

Spec == Init /\ [][Next]_vars

(* ------------------ one envelope, called directly --------------------- *)
\* the parameters Envelope::new is tried with: stage times in ms up to
\* MaxStageMs, at rates that give whole and truncated sample counts
EnvSampleRates == {500, 1000}

SustainLevels == {Zero, Rat(1, 2), Rat(7, 10), One}

EnvInit ==
    /\ main_pc = "poll"
    /\ keys = <<>>
    /\ previous_keys = <<>>
    /\ idx = 1
    /\ ticks = 0
    /\ tick_ev = <<>>
    /\ down = {}
    /\ channel = <<>>
    /\ cb_pc = "wait"
    /\ sample_rate = 0
    /\ notes = EmptyTable
    /\ frames = 0
    /\ frame = 0
    /\ mix = EmptyTable
    /\ pushed = 0
    /\ popped = 0
    /\ last_ev = NoEvent
    /\ reaps = 0
    /\ notes_alt = EmptyTable
    /\ mix_alt = EmptyTable
    /\ \E a, d, r \in 0..MaxStageMs, s \in SustainLevels, sr \in EnvSampleRates :
          env = NewEnvelope(a, d, s, r, sr)
    /\ ret = Zero
    /\ obs = RestObs

\* envelope.trigger()
EnvTrigger ==
    /\ env' = trigger(env)
    /\ obs' = [run |-> IF env.phase = "Idle" THEN "trigger" ELSE "retrigger",
               from |-> env.phase, n |-> 0, level0 |-> env.current_level,
               prev |-> env.current_level]
    /\ UNCHANGED <<mainVars, channel, sample_rate, cbVars, pushed, popped, ret>>

\* envelope.release()
EnvRelease ==
    /\ env' = release(env)
    /\ obs' = [run |-> "release", from |-> env.phase, n |-> 0,
               level0 |-> env.current_level, prev |-> env.current_level]
    /\ UNCHANGED <<mainVars, channel, sample_rate, cbVars, pushed, popped, ret>>

\* envelope.process()
EnvProcess ==
    /\ obs.n < MaxCalls
    /\ env' = process(env)
    /\ ret' = processValue(env)
    /\ obs' = [obs EXCEPT !.n = @ + 1, !.prev = env.current_level]
    /\ UNCHANGED <<mainVars, channel, sample_rate, cbVars, pushed, popped>>

EnvNext ==
    \/ EnvTrigger
    \/ EnvRelease
    \/ EnvProcess

EnvSpec == EnvInit /\ [][EnvNext]_vars

(* ------------- the callback fed with events of every kind ------------- *)
\* producer.try_push((key, pressed)) with any key and any flag on a channel
\* with a free slot: what the consumer side has to cope with
Feed ==
    /\ pushed < MaxFed
    /\ ~Full(channel)
    /\ \E key \in Keycode, pressed \in BOOLEAN :
          channel' = Append(channel, [key |-> key, pressed |-> pressed,
                                      seq |-> pushed + 1])
    /\ pushed' = pushed + 1
    /\ UNCHANGED <<mainVars, sample_rate, cbVars, popped, envVars>>

VoiceNext ==
    \/ Feed
    \/ CallbackBegin
    \/ DrainPop
    \/ DrainEmpty
    \/ RenderFrame
    \/ ReapFrame

VoiceSpec == Init /\ [][VoiceNext]_vars

\* the step that renders a frame, named by what it does to the position of
\* the callback alone (only RenderFrame takes cb_pc from "render" to
\* "reap"): as a fairness condition it is the same as RenderFrame and far
\* cheaper for TLC to test for enabledness
RenderAdvance == cb_pc = "render" /\ cb_pc' = "reap"

\* the audio host keeps invoking the callback and an invocation runs to its
\* end: every step of the audio thread is weakly fair.  The producer of
\* events is under no such condition.
CallbackFairness ==
    /\ WF_vars(CallbackBegin)
    /\ WF_vars(DrainPop)
    /\ WF_vars(DrainEmpty)
    /\ WF_cb_pc(RenderAdvance)
    /\ WF_vars(ReapFrame)

LiveSpec == Init /\ [][VoiceNext]_vars /\ CallbackFairness

(* ------------------------- envelope properties ------------------------ *)
\* C7, as stated (for the phases release() meets in the callback): after
\* release() on an envelope with release_samples > 0 and no trigger(),
\* release_samples calls of process() have brought the level to 0.0 and the
\* phase to Idle.
C7_IdleAfterReleaseSamples ==
    (obs.run = "release" /\ obs.from # "Idle" /\ release_samples(env) > 0
        /\ obs.n = release_samples(env))
    => (env.current_level = Zero /\ env.phase = "Idle")

\* C7, amended: after release() on an envelope with release_samples > 0 and
\* no trigger(), the envelope is in Release through the first
\* release_samples calls of process(); call number release_samples + 1
\* brings the level to 0.0 and the phase to Idle, and that call and every
\* later one return 0.0 with the phase still Idle.
C7_IdleAfterReleaseSamplesPlusOne ==
    (obs.run = "release" /\ release_samples(env) > 0)
    => /\ obs.n <= release_samples(env) => env.phase = "Release"
       /\ obs.n > release_samples(env)
            => (env.phase = "Idle" /\ env.current_level = Zero /\ ret = Zero)

\* a release ramp of two or more samples from a non-zero sustain level has
\* run out and process() has been called again
C7_Witness ==
    /\ obs.run = "release"
    /\ release_samples(env) >= 2
    /\ env.sustain_level # Zero
    /\ obs.n = release_samples(env) + 2
    /\ env.phase = "Idle"
    /\ ret = Zero

\* C8: from an Idle envelope, trigger() and then process() calls only: the
\* envelope is in Attack until call number attack_samples + 1 (one call more
\* than attack_samples, within the one-call tolerance), which returns 1.0
\* and enters Decay; decay_samples further calls (one call when
\* decay_samples is 0) return sustain_level and enter Sustain, the envelope
\* being in Decay until then; the level never falls during Attack and never
\* rises during Decay.
C8_AttackThenDecay ==
    LET a == attack_samples(env)
        d == IF decay_samples(env) = 0 THEN 1 ELSE decay_samples(env) IN
    obs.run = "trigger"
    => /\ obs.n <= a => env.phase = "Attack"
       /\ (1 <= obs.n /\ obs.n <= a + 1) => RatLeq(obs.prev, ret)
       /\ obs.n = a + 1 => (ret = One /\ env.phase = "Decay")
       /\ (a + 1 < obs.n /\ obs.n < a + 1 + d) => env.phase = "Decay"
       /\ (a + 1 < obs.n /\ obs.n <= a + 1 + d) => RatLeq(ret, obs.prev)
       /\ obs.n = a + 1 + d
            => (ret = env.sustain_level /\ env.phase = "Sustain")

\* an attack and a decay of two or more samples each have run to Sustain
\* at a sustain level strictly between 0 and 1
C8_Witness ==
    /\ obs.run = "trigger"
    /\ attack_samples(env) >= 2
    /\ decay_samples(env) >= 2
    /\ env.sustain_level \notin {Zero, One}
    /\ obs.n = attack_samples(env) + 1 + decay_samples(env)
    /\ env.phase = "Sustain"
    /\ ret = env.sustain_level

\* C9, as stated (for the phases release() meets in the callback): with
\* release_samples > 0, the first process() call after release() returns
\* the level the envelope had when release() was called.
C9_ReleaseStartsAtCapturedLevel ==
    (obs.run = "release" /\ obs.from # "Idle" /\ release_samples(env) > 0
        /\ obs.n = 1)
    => ret = obs.level0

\* C10: with 0 <= sustain_level <= 1, after any sequence of trigger(),
\* release() and process() calls the current level and the value process()
\* returned last are both in [0, 1].
C10_LevelInUnitInterval ==
    (RatLeq(Zero, env.sustain_level) /\ RatLeq(env.sustain_level, One))
    => /\ RatLeq(Zero, env.current_level) /\ RatLeq(env.current_level, One)
       /\ RatLeq(Zero, ret) /\ RatLeq(ret, One)

\* an envelope released in mid-decay is part-way down its release ramp
C10_Witness ==
    /\ obs.run = "release"
    /\ obs.from = "Decay"
    /\ obs.n >= 2
    /\ env.phase = "Release"
    /\ ret \notin {Zero, One}
    /\ RatLeq(Zero, ret)
    /\ RatLeq(ret, One)

(* --------------------- channel and callback properties ---------------- *)
\* C1: in every interleaving of the polling loop and the callback the events
\* dispatched so far are a prefix of the events pushed so far.  Every event
\* carries the number of the push that queued it: the queue holds the
\* events numbered popped+1 .. pushed, oldest first, and the event
\* dispatched as number popped is the event pushed as number popped, so
\* nothing is lost, duplicated, coalesced or reordered.
C1_DispatchedPrefixOfPushed ==
    /\ pushed = popped + Len(channel)
    /\ \A i \in 1..Len(channel) : channel[i].seq = popped + i
    /\ last_ev # NoEvent => last_ev.seq = popped

\* the callback has dispatched two or more events and is still draining
\* while further events are queued behind them
C1_Witness ==
    /\ cb_pc = "drain"
    /\ popped >= 2
    /\ last_ev.seq = popped
    /\ Len(channel) >= 2

\* C2, as stated: no reachable state has the polling loop aborted because of
\* a full channel.
C2_FullChannelNotFatal == main_pc # "panicked"

\* the step of the drain loop that dispatches a press for key k
PressDispatched(k) ==
    /\ popped' = popped + 1
    /\ Head(channel).key = k
    /\ Head(channel).pressed

\* C3: the voice table holds voices for mapped keys only, one per key (it
\* is a map from keys), and dispatching a press for a key that has a voice
\* only triggers that voice's envelope (phase Attack, counter 0): the set
\* of keys with a voice, the voice's phase accumulator and frequency, the
\* rest of its envelope and every other voice are unchanged.
C3_PressOnLiveVoiceOnlyRetriggers ==
    /\ [](DOMAIN notes \subseteq DOMAIN KeyFrequency)
    /\ [][\A k \in DOMAIN notes :
            PressDispatched(k)
            => /\ DOMAIN notes' = DOMAIN notes
               /\ notes'[k].phase = notes[k].phase
               /\ notes'[k].note.frequency = notes[k].note.frequency
               /\ notes'[k].env = [notes[k].env EXCEPT
                                      !.phase = "Attack",
                                      !.samples_processed = 0]
               /\ \A j \in DOMAIN notes \ {k} : notes'[j] = notes[j]]_vars

\* a press has just been dispatched to a voice that was part-way through
\* its release with its phase accumulator away from 0
C3_Witness ==
    /\ cb_pc = "drain"
    /\ last_ev.pressed
    /\ last_ev.had_voice
    /\ last_ev.key \in DOMAIN notes
    /\ notes[last_ev.key].phase # Zero
    /\ notes[last_ev.key].env.phase = "Attack"
    /\ notes[last_ev.key].env.samples_processed = 0
    /\ notes[last_ev.key].env.current_level # Zero

\* C4: the retain step removes exactly the voices whose envelope is Idle
\* and leaves every other voice as it was; no voice with an Idle envelope
\* is in the table when a callback has returned or is draining events.
C4_ReapRemovesExactlyIdle ==
    /\ [](cb_pc \in {"wait", "drain"}
            => \A k \in DOMAIN notes : notes[k].env.phase # "Idle")
    /\ [][reaps' = reaps + 1
            => /\ DOMAIN notes' =
                    {k \in DOMAIN notes : notes[k].env.phase # "Idle"}
               /\ \A k \in DOMAIN notes' : notes'[k] = notes[k]]_vars

\* a retain step has removed a voice rendered in the last frame and kept
\* another one
C4_Witness ==
    /\ cb_pc \in {"wait", "render"}
    /\ reaps >= 1
    /\ DOMAIN notes # {}
    /\ DOMAIN mix \ DOMAIN notes # {}

\* C5, as stated: the retain step runs only once every frame of the buffer
\* has been rendered, and once per invocation.
C5_ReapOnceAfterLastFrame ==
    /\ cb_pc = "reap" => frame + 1 = frames
    /\ reaps <= 1

\* C6: events are dispatched only by the drain loop at the start of an
\* invocation, before any frame is rendered, oldest first; the loop ends
\* only on an empty queue and is not entered again in the invocation, so an
\* event pushed after it ended stays queued through the frame loop.
C6_DrainOnceBeforeFrames ==
    /\ [](cb_pc = "drain" => (frame = 0 /\ reaps = 0))
    /\ [][popped' # popped
            => /\ cb_pc = "drain"
               /\ popped' = popped + 1
               /\ last_ev'.seq = Head(channel).seq
               /\ channel' = Tail(channel)]_vars
    /\ [][(cb_pc = "drain" /\ cb_pc' # "drain") => channel = <<>>]_vars
    /\ [][(cb_pc = "render" \/ cb_pc = "reap")
            => (cb_pc' # "drain" /\ popped' = popped)]_vars

\* events were dispatched by this invocation's drain loop, a frame has been
\* rendered, and an event pushed since waits in the queue
C6_Witness ==
    /\ cb_pc = "render"
    /\ frame >= 1
    /\ popped >= 1
    /\ notes # EmptyTable
    /\ channel # <<>>

(* ------------------------- C11 .. C20 --------------------------------- *)
\* C11: a stage of zero samples collapses in one call.  With
\* attack_samples = 0 the first process() after trigger() returns 1.0 and
\* leaves the envelope in Decay; with decay_samples = 0 the first process()
\* in Decay (the call after the one that ended Attack) returns
\* sustain_level and enters Sustain; with release_samples = 0 the first
\* process() after release() returns 0.0 and enters Idle.
C11_ZeroSampleStages ==
    /\ (obs.run \in {"trigger", "retrigger"} /\ attack_samples(env) = 0
            /\ obs.n = 1)
       => (ret = One /\ env.phase = "Decay")
    /\ (obs.run \in {"trigger", "retrigger"} /\ decay_samples(env) = 0
            /\ obs.n = attack_samples(env) + 2)
       => (ret = env.sustain_level /\ env.phase = "Sustain")
    /\ (obs.run = "release" /\ release_samples(env) = 0 /\ obs.n = 1)
       => (ret = Zero /\ env.phase = "Idle")

\* an envelope whose three stages all have zero samples went through
\* Attack and Decay to Sustain and was released: one call took it to Idle
C11_Witness ==
    /\ attack_samples(env) = 0
    /\ decay_samples(env) = 0
    /\ release_samples(env) = 0
    /\ env.sustain_level \notin {Zero, One}
    /\ obs.run = "release"
    /\ obs.from = "Sustain"
    /\ obs.level0 = env.sustain_level
    /\ obs.n = 1
    /\ env.phase = "Idle"
    /\ ret = Zero


\* the step of the drain loop that dispatches a release for key k
ReleaseDispatched(k) ==
    /\ popped' = popped + 1
    /\ Head(channel).key = k
    /\ ~Head(channel).pressed

\* C12: in every run of the polling loop, the channel and the callback, a
\* voice whose envelope is in Sustain is still in the table and in Sustain
\* after every step, and the frame rendered by the step carries it at
\* sustain_level * gain, unless the step dispatches a release event for its
\* key, which puts it in Release.
C12_SustainHoldsUntilRelease ==
    [][\A k \in DOMAIN notes :
        notes[k].env.phase = "Sustain"
        => \/ /\ ReleaseDispatched(k)
              /\ k \in DOMAIN notes'
              /\ notes'[k].env.phase = "Release"
           \/ /\ ~ReleaseDispatched(k)
              /\ k \in DOMAIN notes'
              /\ notes'[k].env.phase = "Sustain"
              /\ notes'[k].env.current_level = notes[k].env.sustain_level
              /\ (cb_pc = "render" /\ cb_pc' = "reap")
                    => mix'[k].amp = RatMul(notes[k].env.sustain_level, Gain)]_vars

\* the one key pressed so far has been rendered three times: through Attack
\* and Decay, and once in Sustain at sustain_level * gain
C12_Witness ==
    /\ pushed = 1
    /\ cb_pc = "reap"
    /\ "Z" \in DOMAIN notes
    /\ notes["Z"].env.phase = "Sustain"
    /\ notes["Z"].phase = Zero
    /\ mix["Z"].amp = RatMul(SustainLevel, Gain)


\* C13: dispatching an event (press or release) for a key without a
\* frequency, or a release event for a mapped key that has no voice, leaves
\* the voice table as it was (keys, phase accumulators, envelopes) and the
\* drain loop goes on.
C13_IgnoredEventsChangeNothing ==
    [][(/\ popped' = popped + 1
        /\ \/ Head(channel).key \notin DOMAIN KeyFrequency
           \/ /\ ~Head(channel).pressed
              /\ Head(channel).key \notin DOMAIN notes)
       => (notes' = notes /\ cb_pc' = "drain")]_vars

\* a release for Z, which has no voice, has just been dispatched while X
\* sounds with its accumulator away from 0
C13_Witness ==
    /\ cb_pc = "drain"
    /\ last_ev.key = "Z"
    /\ ~last_ev.pressed
    /\ ~last_ev.had_voice
    /\ DOMAIN notes = {"X"}
    /\ notes["X"].phase # Zero


\* the events a tick with current snapshot K and previous snapshot P owes:
\* a press for every key in K \ P, a release for every key in P \ K
ExpectedEvents(K, P) ==
    {[key |-> k, pressed |-> TRUE] : k \in Range(K) \ Range(P)}
    \cup {[key |-> k, pressed |-> FALSE] : k \in Range(P) \ Range(K)}

\* the two for loops of the running tick are over: main is at the exit
\* test, has left the loop, or has been ended by a panic inside them
TickOver ==
    \/ main_pc = "release" /\ idx > Len(previous_keys)
    \/ main_pc = "done"
    \/ main_pc = "panicked"

\* C14, as stated (the events of a tick): once the for loops of a tick with
\* previous snapshot P and current snapshot K are over, the tick has pushed
\* one press for each key in K \ P, one release for each key in P \ K, and
\* nothing else.
C14_TickPushesExactDiff ==
    TickOver
    => /\ Range(tick_ev) = ExpectedEvents(keys, previous_keys)
       /\ Len(tick_ev) = Cardinality(ExpectedEvents(keys, previous_keys))

\* C15, as stated (the tick the loop ends on): the polling loop has ended
\* only on a tick whose snapshot holds Escape, with the press and release
\* events of that tick pushed and no release among them for a key still
\* held; a loop that goes on polling has seen no snapshot with Escape.
C15_EndsOnEscapeAfterPushing ==
    /\ main_pc \in {"done", "panicked"}
       => /\ "Escape" \in Range(keys)
          /\ Range(tick_ev) = ExpectedEvents(keys, previous_keys)
          /\ \A i \in 1..Len(tick_ev) :
                ~tick_ev[i].pressed => tick_ev[i].key \notin Range(keys)
    /\ main_pc = "poll" => "Escape" \notin Range(previous_keys)


\* C16: while the callback keeps being invoked, whatever events it is fed,
\* a voice in Release (a release for its key has been dispatched) is
\* eventually out of the table, unless a press for its key is dispatched
\* first (the voice is back in Attack);
\* a voice leaves the table only after it has been rendered at amplitude 0,
\* and a key without a voice gets one only by the dispatch of a press.
C16_ReleasedVoiceEventuallyRemoved ==
    /\ \A k \in MappedKeys :
          (k \in DOMAIN notes /\ notes[k].env.phase = "Release")
          ~> \/ k \notin DOMAIN notes
             \/ notes[k].env.phase = "Attack"
    /\ [][\A k \in DOMAIN notes :
            k \notin DOMAIN notes'
            => (mix[k].amp = Zero /\ notes[k].env.phase = "Idle")]_vars
    /\ [][\A k \in MappedKeys :
            (k \notin DOMAIN notes /\ k \in DOMAIN notes')
            => PressDispatched(k)]_vars

\* two events were fed and dispatched, a press and a release of Z among
\* them, and the voice of Z has been dropped after a frame that rendered it
\* at amplitude 0
C16_Witness ==
    /\ pushed = 2
    /\ popped = 2
    /\ reaps >= 1
    /\ "Z" \in DOMAIN mix
    /\ mix["Z"].amp = Zero
    /\ notes = EmptyTable


\* C17, as stated: the term a voice adds to a frame is computed at the
\* phase the voice held before the advance of that sample, so the phase the
\* voice holds once the frame is rendered is the phase of the term advanced
\* by frequency / sample_rate and wrapped.
C17_SampledBeforeAdvance ==
    cb_pc = "reap"
    => \A k \in DOMAIN mix :
          notes[k].phase =
              AdvancePhase(mix[k].at, notes[k].note.frequency, sample_rate)


\* C18: in every reachable state every voice has 0 <= phase < 1, with
\* 0 < frequency < sample_rate for every mapped key.
C18_PhaseInUnitInterval ==
    /\ \A k \in MappedKeys :
          0 < KeyFrequency[k] /\ KeyFrequency[k] < sample_rate
    /\ \A k \in DOMAIN notes :
          /\ RatLeq(Zero, notes[k].phase)
          /\ ~RatLeq(One, notes[k].phase)

\* the one key pressed so far is held in Sustain and its accumulator has
\* wrapped: four samples at a third of a cycle each leave it at 1/3
C18_Witness ==
    /\ pushed = 1
    /\ "Z" \in DOMAIN notes
    /\ notes["Z"].env.phase = "Sustain"
    /\ notes["Z"].phase = Rat(1, 3)


\* C19: for every key the events the polling loop pushes alternate, the
\* first being a press: a press is pushed only for a key whose last pushed
\* event is not a press (or that has none), a release only for a key whose
\* last pushed event is a press.  Hence a press dispatched to a key that
\* has a voice finds that voice in Release, never in Attack, Decay or
\* Sustain.
C19_EventsAlternatePerKey ==
    /\ [][pushed' = pushed + 1
            => LET ev == channel'[Len(channel')] IN
               IF ev.pressed THEN ev.key \notin down ELSE ev.key \in down]_vars
    /\ [][\A k \in DOMAIN notes :
            PressDispatched(k) => notes[k].env.phase = "Release"]_vars

\* Z was pressed, released and pressed again; the second press, the third
\* event pushed, has just been dispatched to the voice the first one made
C19_Witness ==
    /\ pushed = 3
    /\ down = {"Z"}
    /\ last_ev.seq = 3
    /\ last_ev.key = "Z"
    /\ last_ev.pressed
    /\ last_ev.had_voice
    /\ notes["Z"].env.phase = "Attack"


\* the terms of a mix that make up the value written to the frame: those
\* of amplitude 0.0 add nothing to the sum
Audible(m) == [k \in {x \in DOMAIN m : m[x].amp # Zero} |-> m[k]]

\* C20: the callback as coded (retain after every frame) and the same
\* callback with the retain moved behind the frame loop, fed the same
\* events and buffers, write the same value to every frame (the same
\* non-zero terms) and hold the same voice table whenever an invocation
\* has returned or is draining events; in between the second one only
\* holds Idle voices in addition.
C20_ReapPerFrameSameAsAfterLoop ==
    /\ Audible(mix_alt) = Audible(mix)
    /\ cb_pc \in {"wait", "drain"} => notes_alt = notes
    /\ \A k \in DOMAIN notes : k \in DOMAIN notes_alt /\ notes_alt[k] = notes[k]
    /\ \A k \in DOMAIN notes_alt \ DOMAIN notes :
          notes_alt[k].env.phase = "Idle"

\* a frame has just been rendered in which the second callback still
\* carried, silent, a voice the first one had dropped after the frame
\* before, next to a voice both sound
C20_Witness ==
    /\ cb_pc = "reap"
    /\ DOMAIN mix_alt \ DOMAIN mix # {}
    /\ Audible(mix) # EmptyTable
    /\ \E k \in DOMAIN notes_alt \ DOMAIN notes :
          notes_alt[k].phase # Zero

=============================================================================
